---- MODULE Spec2Model ----
(***************************************************************************)
(* Oscillator node of web-audio-api-rs: the control-thread handle          *)
(* (OscillatorNode), the render-thread processor (OscillatorRenderer),     *)
(* the Scheduler they share and the capacity-0 channel between them.       *)
(*                                                                         *)
(* Time is counted in render quanta: the host calls process once per       *)
(* quantum with the quantum-start timestamp.  f32/f64 values are modelled  *)
(* by integers (frequencies in Hz, phases in sine-table units).            *)
(***************************************************************************)
EXTENDS Integers, Sequences, FiniteSets, TLC

\* ---------------------------------------------------------------- bounds
MaxQuanta == 2      \* render quanta the host asks for
MaxCalls  == 2      \* set_periodic_wave calls made by the control thread
MaxLen    == 3      \* longest real / imag array given to PeriodicWave::new

\* ------------------------------------------------------ program constants
TABLE_LENGTH        == 2048
RENDER_QUANTUM_SIZE == 128
F64_MAX             == 2147483647     \* stands for f64::MAX
SampleRate          == 44100
DefaultFreq         == 440
PiSquared1e4        == 98696          \* PI * PI, in 1/10000
Milli               == 1000           \* f32 samples and wavetable phases, in 1/1000
Sqrt2Milli          == 1414           \* 2f32.sqrt(), in 1/1000

Times  == 0 .. MaxQuanta
Freqs  == {0, 880}
Coefs  == {0, 1}

\* ------------------------------------------------------- OscillatorType
OscillatorTypes == <<"Sine", "Square", "Sawtooth", "Triangle", "Custom">>

TypeTags == {OscillatorTypes[i] : i \in 1 .. Len(OscillatorTypes)}

\* `type_ as u32`: the discriminant is the position in the enum declaration
as_u32(t) == (CHOOSE i \in 1 .. Len(OscillatorTypes) : OscillatorTypes[i] = t) - 1

From_u32_swapped(i) ==
    CASE i = 0 -> "Sine"
      [] i = 1 -> "Sawtooth"
      [] i = 2 -> "Square"
      [] i = 3 -> "Triangle"
      [] i = 4 -> "Custom"
      [] OTHER -> "unreachable"

\* impl From<u32> for OscillatorType
From_u32(i) ==
    CASE i = 0 -> "Sine"
      [] i = 1 -> "Square"
      [] i = 2 -> "Sawtooth"
      [] i = 3 -> "Triangle"
      [] i = 4 -> "Custom"
      [] OTHER -> "unreachable"

\* ------------------------------------------------------------ Scheduler
is_active_closed(ts, s, p) == ts >= s /\ ts <= p

is_active_nostop(ts, s, p) == ts >= s

\* Scheduler::is_active, on the loaded values of start and stop
is_active(ts, s, p) == ts >= s /\ ts < p

\* --------------------------------------------------------- PeriodicWave
NoneOpt == [some |-> FALSE]

SomeOpt(re, im, dn) ==
    [some |-> TRUE, real |-> re, imag |-> im, disable_normalization |-> dn]

PeriodicWave_new_lax(options) ==
    IF options.some
    THEN IF Len(options.real) < 2
         THEN [ok |-> FALSE, panic |-> "RangeError: Real field length should be at least 2"]
         ELSE [ok |-> TRUE,
               val |-> [real |-> options.real, imag |-> options.imag,
                        disable_normalization |-> options.disable_normalization]]
    ELSE [ok |-> TRUE,
          val |-> [real |-> <<0, 0>>, imag |-> <<0, 1>>,
                   disable_normalization |-> FALSE]]

\* PeriodicWave::new: the three assertions, in order, then the value
PeriodicWave_new(options) ==
    IF options.some
    THEN IF Len(options.real) < 2
         THEN [ok |-> FALSE, panic |-> "RangeError: Real field length should be at least 2"]
         ELSE IF Len(options.imag) < 2
         THEN [ok |-> FALSE, panic |-> "RangeError: Imag field length should be at least 2"]
         ELSE IF Len(options.real) # Len(options.imag)
         THEN [ok |-> FALSE, panic |-> "RangeError: Imag and real field length should be equal"]
         ELSE [ok |-> TRUE,
               val |-> [real |-> options.real, imag |-> options.imag,
                        disable_normalization |-> options.disable_normalization]]
    ELSE [ok |-> TRUE,
          val |-> [real |-> <<0, 0>>, imag |-> <<0, 1>>,
                   disable_normalization |-> FALSE]]

\* ------------------------------------------------- wavetable synthesis
Detunes == {0}

\* 2f32.powf(detune / 1200.), for a detune that is a whole number of octaves
Pow2Cents(d) == 2 ^ (d \div 1200)

\* frequency * 2^(detune/1200)
computed_freq_of(f, d) == f * Pow2Cents(d)

\* f32::atan2(img, real) in eighths of a turn, -3 .. 4, for coefficients
\* whose absolute values are equal or zero
Atan2Eighths(img, real) ==
    CASE img = 0 /\ real >= 0 -> 0
      [] img = 0 /\ real < 0  -> 4
      [] img > 0 /\ real > 0  -> 1
      [] img > 0 /\ real = 0  -> 2
      [] img > 0 /\ real < 0  -> 3
      [] img < 0 /\ real < 0  -> -3
      [] img < 0 /\ real = 0  -> -2
      [] img < 0 /\ real > 0  -> -1

\* the start phase of a harmonic in sine-table units (integer part):
\* (phase + 2 PI) * (TABLE_LENGTH / (2 PI)) for a negative phase, and
\* phase * (TABLE_LENGTH / 2 * PI) otherwise
HarmonicPhase(img, real) ==
    LET k == Atan2Eighths(img, real)
    IN  IF k < 0
        THEN ((k + 8) * TABLE_LENGTH) \div 8
        ELSE (k * TABLE_LENGTH * PiSquared1e4) \div (8 * 10000)

\* incr_phases[idx] = TABLE_LENGTH * idx * (computed_freq / sample_rate),
\* as a numerator over SampleRate
HarmonicIncr(idx, cf) == TABLE_LENGTH * idx * cf

\* `while phases[1] <= TABLE_LENGTH` never exits when the harmonic-1 phase
\* starts inside the table and its increment is not positive
LoopDiverges(pw, cf) ==
    /\ HarmonicPhase(pw.imag[2], pw.real[2]) <= TABLE_LENGTH
    /\ HarmonicIncr(1, cf) <= 0

\* the while loop of generate_wavetable: one buffer.push per iteration;
\* p is phases[1] times SampleRate, n the length of the buffer so far
WavetableLoop[p \in Int, incr \in Int, n \in Nat] ==
    IF p <= TABLE_LENGTH * SampleRate
    THEN WavetableLoop[p + incr, incr, n + 1]
    ELSE n

NoBuffer == [len |-> 0, real |-> <<>>, imag |-> <<>>, freq |-> 0]

\* generate_wavetable (OscillatorNode and OscillatorRenderer share the
\* algorithm): the buffer is described by its length and by what it was
\* synthesized from
generate_wavetable(pw, cf) ==
    [len  |-> WavetableLoop[HarmonicPhase(pw.imag[2], pw.real[2]) * SampleRate,
                            HarmonicIncr(1, cf), 0],
     real |-> pw.real, imag |-> pw.imag, freq |-> cf]

\* norm_factor: 1 / max(buffer); reduce on an empty buffer yields None and
\* the expect panics
norm_factor(buffer) ==
    IF buffer.len = 0
    THEN [ok |-> FALSE, panic |-> "Maximum value not found"]
    ELSE [ok |-> TRUE, val |-> [recip_max_of |-> buffer]]

NoMsg == [kind |-> "none"]

\* OscMsg::PeriodicWaveMsg
PeriodicWaveMsg(cf, wavetable, nf, dn) ==
    [kind |-> "PeriodicWaveMsg", computed_freq |-> cf, wavetable |-> wavetable,
     norm_factor |-> nf, disable_normalization |-> dn]

NoneF32 == [some |-> FALSE]

SomeF32(v) == [some |-> TRUE, val |-> v]

\* OscillatorRenderer::new: the periodic state built from the options'
\* wave, or from real = [0, 1], imag = [0, 0] when there is none
OscillatorRenderer_new(periodic_wave) ==
    LET cf     == DefaultFreq * Pow2Cents(0)
        pw     == IF periodic_wave.some THEN periodic_wave.val
                  ELSE [real |-> <<0, 1>>, imag |-> <<0, 0>>,
                        disable_normalization |-> FALSE]
        buffer == generate_wavetable(pw, cf)
        nf     == norm_factor(buffer)
    IN  IF ~pw.disable_normalization /\ ~nf.ok
        THEN [ok |-> FALSE, panic |-> nf.panic]
        ELSE [ok |-> TRUE,
              val |-> [computed_freq |-> cf,
                       phase |-> 0,
                       incr_phase |-> cf,
                       sine_first |-> TRUE,
                       triangle_last |-> "zero",
                       periodic |->
                         [norm_factor |-> IF ~pw.disable_normalization
                                          THEN SomeF32(nf.val) ELSE NoneF32,
                          disable_normalization |-> pw.disable_normalization,
                          wavetable |-> [buffer |-> buffer, phase |-> 0,
                                         incr_phase |-> Milli, ref_freq |-> cf]]]]

Renderer_set_periodic_wave_keepref(r, m) ==
    [r EXCEPT !.periodic.wavetable.buffer = m.wavetable,
              !.periodic.norm_factor = SomeF32(m.norm_factor),
              !.periodic.disable_normalization = m.disable_normalization]

\* OscillatorRenderer::set_periodic_wave
Renderer_set_periodic_wave(r, m) ==
    [r EXCEPT !.periodic.wavetable.ref_freq = m.computed_freq,
              !.periodic.wavetable.buffer = m.wavetable,
              !.periodic.norm_factor = SomeF32(m.norm_factor),
              !.periodic.disable_normalization = m.disable_normalization]

\* ----------------------------------------------------------- generators
\* f32 phases are fixed-point integers: phase and incr_phase in 1/SampleRate,
\* wavetable.phase and wavetable.incr_phase in 1/Milli; samples in 1/Milli
Abs(x) == IF x < 0 THEN -x ELSE x

\* a % b on f32: the remainder takes the sign of the dividend
Rem(a, b) == IF a >= 0 THEN a % b ELSE -((-a) % b)

\* `x as usize` of a fixed-point x: truncation, a negative value gives 0
as_usize(x, scale) == IF x < 0 THEN 0 ELSE x \div scale

\* SINETABLE[idx] = sin(idx * 2 PI / TABLE_LENGTH), in 1/Milli, by
\* Bhaskara's rational approximation of the sine (within 0.2 %)
SINETABLE(idx) ==
    LET half == TABLE_LENGTH \div 2
        i    == idx % half
        v    == (4 * Milli * (i * (half - i)))
                    \div (5 * ((half * half) \div 4) - i * (half - i))
    IN  IF idx < half THEN v ELSE -v

\* norms[idx] = sqrt(real^2 + img^2), in 1/Milli, for coefficients whose
\* absolute values are equal or zero
HarmonicNorm(img, real) ==
    IF img = 0 \/ real = 0
    THEN (Abs(img) + Abs(real)) * Milli
    ELSE Abs(real) * Sqrt2Milli

\* buffer[n], the sample pushed by iteration n (from 0) of the wavetable
\* loop: the sum over the harmonics 1 .. of SINETABLE[inf_idx] * gain, with
\* idx = (phase + incr_phase) as usize after n earlier increments; the
\* sample is taken at table resolution
BufferSample(buffer, n) ==
    LET sum[i \in 1 .. Len(buffer.real)] ==
            IF i = 1 THEN 0
            ELSE LET img   == buffer.imag[i]
                     real  == buffer.real[i]
                     idx   == as_usize(HarmonicPhase(img, real) * SampleRate
                                         + (n + 1) * HarmonicIncr(i - 1, buffer.freq),
                                       SampleRate)
                 IN  sum[i - 1]
                       + (SINETABLE(idx % TABLE_LENGTH) * HarmonicNorm(img, real))
                            \div Milli
    IN  sum[Len(buffer.real)]

\* arate_calc_params: sine derives incr_phase in table units on its first
\* call and when the frequency moved, the other waveforms in unit-interval
\* units when the frequency moved
arate_calc_params(r, t, cf) ==
    IF t = "Sine"
    THEN LET r1 == IF r.sine_first
                   THEN [r EXCEPT !.sine_first = FALSE,
                                  !.incr_phase = cf * TABLE_LENGTH]
                   ELSE r
         IN  IF r1.computed_freq = cf
             THEN r1
             ELSE [r1 EXCEPT !.computed_freq = cf,
                             !.incr_phase = cf * TABLE_LENGTH]
    ELSE IF r.computed_freq = cf
         THEN r
         ELSE [r EXCEPT !.computed_freq = cf, !.incr_phase = cf]

\* arate_calc_periodic_params: wavetable.incr_phase = new / ref_freq when
\* the frequency moved
arate_calc_periodic_params(r, cf) ==
    IF r.computed_freq = cf
    THEN r
    ELSE [r EXCEPT !.periodic.wavetable.incr_phase
                       = (cf * Milli) \div r.periodic.wavetable.ref_freq,
                   !.computed_freq = cf]

\* the state of a generator loop between two samples: the phase cursor,
\* whether it was in range at every sample so far, the wavetable indices
\* read so far
LoopStates == [phase : Int, cursor : BOOLEAN, read : Seq(Nat)]

\* generate_sine over one quantum at frequency cf: each sample reads the
\* table at phase, then phase advances and wraps once at TABLE_LENGTH
generate_sine(r, cf) ==
    LET r1   == arate_calc_params(r, "Sine", cf)
        wrap == TABLE_LENGTH * SampleRate
        sample(s) ==
            [s EXCEPT !.phase  = IF @ + r1.incr_phase >= wrap
                                 THEN @ + r1.incr_phase - wrap
                                 ELSE @ + r1.incr_phase,
                      !.cursor = @ /\ s.phase >= 0 /\ s.phase < wrap]
        samples[n \in Nat, s \in LoopStates] ==
            IF n = 0 THEN s
            ELSE IF n = 1 THEN sample(s)
            ELSE samples[n - n \div 2, samples[n \div 2, s]]
        end == samples[RENDER_QUANTUM_SIZE,
                       [phase |-> r1.phase, cursor |-> TRUE, read |-> <<>>]]
    IN  [ok |-> TRUE, custom |-> FALSE, cursor |-> end.cursor,
         renderer |-> [r1 EXCEPT !.phase = end.phase]]

\* the phase cursor of generate_sawtooth, generate_square and
\* generate_triangle over one quantum: each sample is computed from phase,
\* then phase += incr_phase; while phase >= 1. { phase -= 1. }
UnitPhase(r1) ==
    LET sample(s) ==
            [s EXCEPT !.phase  = IF @ + r1.incr_phase >= SampleRate
                                 THEN (@ + r1.incr_phase) % SampleRate
                                 ELSE @ + r1.incr_phase,
                      !.cursor = @ /\ s.phase >= 0 /\ s.phase < SampleRate]
        samples[n \in Nat, s \in LoopStates] ==
            IF n = 0 THEN s
            ELSE IF n = 1 THEN sample(s)
            ELSE samples[n - n \div 2, samples[n \div 2, s]]
    IN  samples[RENDER_QUANTUM_SIZE,
                [phase |-> r1.phase, cursor |-> TRUE, read |-> <<>>]]

generate_sawtooth(r, cf) ==
    LET r1  == arate_calc_params(r, "Sawtooth", cf)
        end == UnitPhase(r1)
    IN  [ok |-> TRUE, custom |-> FALSE, cursor |-> end.cursor,
         renderer |-> [r1 EXCEPT !.phase = end.phase]]

generate_square(r, cf) ==
    LET r1  == arate_calc_params(r, "Square", cf)
        end == UnitPhase(r1)
    IN  [ok |-> TRUE, custom |-> FALSE, cursor |-> end.cursor,
         renderer |-> [r1 EXCEPT !.phase = end.phase]]

\* generate_triangle also integrates its samples into triangle.last_output
generate_triangle(r, cf) ==
    LET r1  == arate_calc_params(r, "Triangle", cf)
        end == UnitPhase(r1)
    IN  [ok |-> TRUE, custom |-> FALSE, cursor |-> end.cursor,
         renderer |-> [r1 EXCEPT !.phase = end.phase,
                                 !.triangle_last = "integrated"]]

\* generate_custom over one quantum: wavetable.phase advances modulo
\* buffer.len() and the sample is buffer[phase as usize], as it is: read
\* is the set of indices the samples of the quantum were copied from.  On
\* an empty buffer the remainder is NaN, the index 0, and the indexing
\* panics
generate_custom(r, cf) ==
    LET r1  == arate_calc_periodic_params(r, cf)
        wt  == r1.periodic.wavetable
        len == wt.buffer.len
        sample(s) ==
            LET p == Rem(s.phase + wt.incr_phase, len * Milli)
            IN  [phase  |-> p,
                 cursor |-> s.cursor /\ p >= 0 /\ p < len * Milli,
                 read   |-> Append(s.read, as_usize(p, Milli))]
        samples[n \in Nat, s \in LoopStates] ==
            IF n = 0 THEN s
            ELSE IF n = 1 THEN sample(s)
            ELSE samples[n - n \div 2, samples[n \div 2, s]]
        end == samples[RENDER_QUANTUM_SIZE,
                       [phase |-> wt.phase, cursor |-> TRUE, read |-> <<>>]]
    IN  IF len = 0
        THEN [ok |-> FALSE, panic |-> "index out of bounds",
              renderer |-> [r1 EXCEPT !.periodic.wavetable.phase = "NaN"]]
        ELSE [ok |-> TRUE, custom |-> TRUE,
              cursor |-> end.cursor,
              read |-> {end.read[k] : k \in 1 .. Len(end.read)},
              renderer |-> [r1 EXCEPT !.periodic.wavetable.phase = end.phase]]

\* generate_output: the match on the type loaded by process
generate_output(r, t, cf) ==
    CASE t = "Sine"     -> generate_sine(r, cf)
      [] t = "Square"   -> generate_square(r, cf)
      [] t = "Sawtooth" -> generate_sawtooth(r, cf)
      [] t = "Triangle" -> generate_triangle(r, cf)
      [] t = "Custom"   -> generate_custom(r, cf)


\* ------------------------------------------------------------ AtomicF64
\* An f64 is its IEEE 754 binary64 fields: the sign bit, the 11 exponent
\* bits, and the 52 fraction bits as seven digits, the top four bits and
\* then six bytes, most significant first.
F64(s, e, f) == [sign |-> s, exp |-> e, frac |-> f]

ZeroFrac == <<0, 0, 0, 0, 0, 0, 0>>
OnesFrac == <<15, 255, 255, 255, 255, 255, 255>>

PosZero      == F64(0, 0, ZeroFrac)
NegZero      == F64(1, 0, ZeroFrac)
MinSubnormal == F64(0, 0, <<0, 0, 0, 0, 0, 0, 1>>)
MaxSubnormal == F64(0, 0, OnesFrac)
MinPositive  == F64(0, 1, ZeroFrac)
Tenth        == F64(0, 1019, <<9, 153, 153, 153, 153, 153, 154>>)
Half         == F64(0, 1022, ZeroFrac)
One          == F64(0, 1023, ZeroFrac)
MinusOne     == F64(1, 1023, ZeroFrac)
Two          == F64(0, 1024, ZeroFrac)
Three        == F64(0, 1024, <<8, 0, 0, 0, 0, 0, 0>>)
A440         == F64(0, 1031, <<11, 128, 0, 0, 0, 0, 0>>)
MaxF64       == F64(0, 2046, OnesFrac)
MinF64       == F64(1, 2046, OnesFrac)
PosInfinity  == F64(0, 2047, ZeroFrac)
NegInfinity  == F64(1, 2047, ZeroFrac)
QuietNaN     == F64(0, 2047, <<8, 0, 0, 0, 0, 0, 0>>)

F64Values ==
    {PosZero, NegZero, MinSubnormal, MaxSubnormal, MinPositive, Tenth, Half,
     One, MinusOne, Two, Three, A440, MaxF64, MinF64, PosInfinity,
     NegInfinity, QuietNaN}

is_nan(v) == v.exp = 2047 /\ v.frac # ZeroFrac

\* f64 == f64: no NaN equals anything, the two zeros are equal
F64Eq(a, b) ==
    /\ ~is_nan(a) /\ ~is_nan(b)
    /\ \/ a = b
       \/ a.exp = 0 /\ a.frac = ZeroFrac /\ b.exp = 0 /\ b.frac = ZeroFrac

Endians == {"little", "big"}

Reverse(s) == [i \in 1..Len(s) |-> s[Len(s) + 1 - i]]

\* the eight bytes of the binary64 encoding, most significant first
f64_to_be_bytes(v) ==
    <<v.sign * 128 + v.exp \div 16, (v.exp % 16) * 16 + v.frac[1]>>
        \o SubSeq(v.frac, 2, 7)

f64_from_be_bytes(b) ==
    F64(b[1] \div 128, (b[1] % 128) * 16 + b[2] \div 16,
        <<b[2] % 16>> \o SubSeq(b, 3, 8))

\* the encoding written most significant byte first on every target
f64_to_ne_bytes_be(v, endian) == f64_to_be_bytes(v)

\* f64::to_ne_bytes: the encoding in the byte order of the target
f64_to_ne_bytes(v, endian) ==
    IF endian = "big" THEN f64_to_be_bytes(v) ELSE Reverse(f64_to_be_bytes(v))

\* f64::from_ne_bytes
f64_from_ne_bytes(b, endian) ==
    f64_from_be_bytes(IF endian = "big" THEN b ELSE Reverse(b))

\* u64::from_ne_bytes: a u64 is its eight base-256 digits, most significant
\* first
u64_from_ne_bytes(b, endian) == IF endian = "big" THEN b ELSE Reverse(b)

\* u64::to_ne_bytes
u64_to_ne_bytes(x, endian) == IF endian = "big" THEN x ELSE Reverse(x)

AtomicF64_new(v, endian) ==
    [inner |-> u64_from_ne_bytes(f64_to_ne_bytes(v, endian), endian)]

AtomicF64_load(a, endian) ==
    f64_from_ne_bytes(u64_to_ne_bytes(a.inner, endian), endian)

AtomicF64_store(a, v, endian) ==
    [a EXCEPT !.inner = u64_from_ne_bytes(f64_to_ne_bytes(v, endian), endian)]


\* --------------------------------------------------------------- state
VARIABLES
    type_,      \* Arc<AtomicU32> shared by node and renderer
    start,      \* Scheduler.start
    stop,       \* Scheduler.stop
    frequency,  \* value of the frequency AudioParam
    detune,     \* value of the detune AudioParam
    channel,    \* crossbeam_channel::bounded(0)
    node,       \* control thread: where it is in set_periodic_wave, its locals
    ret,        \* what the last control-thread call returned
    renderer,   \* OscillatorRenderer fields
    proc,       \* render thread: where it is in process, its locals
    quantum,    \* index of the next render quantum
    output,     \* outputs[0] as the last process call left it
    hist,       \* history of the calls made so far
    pwOpts,     \* PeriodicWave::new on its own: the options
    pwRes,      \* PeriodicWave::new on its own: the outcome
    target_endian, \* byte order of the build target
    atomic,     \* an AtomicF64 on its own
    atomicCalls \* the calls made on it and what they returned

vars == <<type_, start, stop, frequency, detune, channel, node, ret,
          renderer, proc, quantum, output, hist, pwOpts, pwRes,
          target_endian, atomic, atomicCalls>>

NoWave == [some |-> FALSE]

SomeWave(w) == [some |-> TRUE, val |-> w]

\* options handed to PeriodicWave::new by the control thread
MainWaveOptions ==
    { NoneOpt,
      SomeOpt(<<0, 1>>, <<0, 0>>, FALSE),
      SomeOpt(<<0, 0>>, <<0, 1>>, TRUE),
      SomeOpt(<<0, 1, 1>>, <<0, 0, 0>>, TRUE) }

\* the PeriodicWave values the control thread can hold
Waves == {PeriodicWave_new(o).val : o \in {x \in MainWaveOptions : PeriodicWave_new(x).ok}}

OptionsSet ==
    [type_ : {"Sine", "Custom"}, frequency : Freqs, detune : Detunes,
     periodic_wave : {NoWave} \cup {SomeWave(w) : w \in Waves}]

\* the output channel before the first process call
NoOutput == [len |-> 0, samples |-> "none"]

\* AudioBuffer::make_silent on the mono output: 128 zeros
Silence == [len |-> RENDER_QUANTUM_SIZE, samples |-> "zeros"]

\* a quantum of samples written by generate_output: whether the phase
\* cursor was in the range of the waveform at every sample and, for the
\* custom generator, the wavetable entries the samples are copies of
Generated(g) ==
    IF g.custom
    THEN [len |-> RENDER_QUANTUM_SIZE, samples |-> "custom",
          cursor |-> g.cursor, read |-> g.read]
    ELSE [len |-> RENDER_QUANTUM_SIZE, samples |-> "generated",
          cursor |-> g.cursor]

IdleNode == [pc |-> "idle", pw |-> NoWave, msg |-> NoMsg, panic |-> "none"]

IdleProc ==
    [pc |-> "idle", timestamp |-> -1, start |-> F64_MAX, gate |-> "none",
     freq |-> 0, type_ |-> "none", consumed |-> 0,
     blockedAtBegin |-> FALSE, retAtBegin |-> 0, callsAtLoad |-> 0,
     panic |-> "none"]

\* the render thread is inside a process call
InCall == proc.pc \in {"stop", "type", "recv", "gen"}

\* process returned: its locals are gone, the timestamp and the outcome of
\* the gate are remembered
Returned(gate) ==
    [IdleProc EXCEPT !.timestamp = proc.timestamp, !.gate = gate]

NoRenderer ==
    [computed_freq |-> 0, phase |-> 0, incr_phase |-> 0, sine_first |-> TRUE,
     triangle_last |-> "zero",
     periodic |-> [norm_factor |-> NoneF32, disable_normalization |-> FALSE,
                   wavetable |-> [buffer |-> NoBuffer, phase |-> 0,
                                  incr_phase |-> 0, ref_freq |-> 0]]]

InitHist(o) ==
    [given |-> o.periodic_wave, started |-> FALSE, startWritten |-> FALSE, stopWritten |-> FALSE,
     lastWritten |-> o.type_, lastWriter |-> "new",
     calls |-> 0, returned |-> 0, sent |-> 0, lastSent |-> NoMsg, recvd |-> 0,
     stale |-> 0]

Scheduler_new_active == [start |-> 0, stop |-> F64_MAX]

\* Scheduler::new
Scheduler_new == [start |-> F64_MAX, stop |-> F64_MAX]

\* OscillatorNode::new(context, options): the node and its renderer, or
\* the panic of the renderer's construction
OscillatorNode_new(o) ==
    LET r == OscillatorRenderer_new(o.periodic_wave)
    IN  /\ type_ = as_u32(o.type_)
        /\ start = Scheduler_new.start
        /\ stop = Scheduler_new.stop
        /\ frequency = o.frequency
        /\ detune = o.detune
        /\ channel = [waiting |-> NoMsg, disconnected |-> ~r.ok]
        /\ node = IF r.ok THEN IdleNode
                  ELSE [IdleNode EXCEPT !.pc = "panicked", !.panic = r.panic]
        /\ ret = "unit"
        /\ renderer = IF r.ok THEN r.val ELSE NoRenderer
        /\ proc = IF r.ok THEN IdleProc ELSE [IdleProc EXCEPT !.pc = "dropped"]
        /\ quantum = 0
        /\ output = NoOutput
        /\ hist = InitHist(o)

\* ------------------------------------------------------ control thread
pwVars == <<pwOpts, pwRes>>

afVars == <<target_endian, atomic, atomicCalls>>

NoLoad == [some |-> FALSE]
SomeLoad(v) == [some |-> TRUE, val |-> v]

\* let a = AtomicF64::new(v)
AF_New(v, endian) ==
    /\ target_endian = endian
    /\ atomic = AtomicF64_new(v, endian)
    /\ atomicCalls = [initial |-> v, first |-> NoLoad, writer |-> "new",
                      written |-> v, loaded |-> NoLoad]

renderVars == <<renderer, proc, quantum, output>>

\* AudioScheduledSourceNode::start_at -> Scheduler::start_at
StartAt(t) ==
    /\ node.pc = "idle"
    /\ start' = t
    /\ ret' = "unit"
    /\ hist' = [hist EXCEPT !.started = TRUE, !.startWritten = InCall]
    /\ UNCHANGED <<type_, stop, frequency, detune, channel, node,
                   renderVars, pwVars, afVars>>

\* AudioScheduledSourceNode::stop_at -> Scheduler::stop_at
StopAt(t) ==
    /\ node.pc = "idle"
    /\ stop' = t
    /\ ret' = "unit"
    /\ hist' = [hist EXCEPT !.stopWritten = InCall]
    /\ UNCHANGED <<type_, start, frequency, detune, channel, node,
                   renderVars, pwVars, afVars>>

\* OscillatorNode::set_type
SetType(t) ==
    /\ node.pc = "idle"
    /\ type_' = as_u32(t)
    /\ ret' = "unit"
    /\ hist' = [hist EXCEPT !.lastWritten = t, !.lastWriter = "set_type"]
    /\ UNCHANGED <<start, stop, frequency, detune, channel, node,
                   renderVars, pwVars, afVars>>

\* OscillatorNode::type_
Type_ ==
    /\ node.pc = "idle"
    /\ ret' = From_u32(type_)
    /\ UNCHANGED <<type_, start, stop, frequency, detune, channel,
                   node, hist, renderVars, pwVars, afVars>>

\* node.frequency().set_value(f)
SetFrequency(f) ==
    /\ node.pc = "idle"
    /\ frequency' = f
    /\ ret' = "unit"
    /\ UNCHANGED <<type_, start, stop, detune, channel, node, hist,
                   renderVars, pwVars, afVars>>

SPW_StoreType_nostore(pw) ==
    /\ node.pc = "idle"
    /\ hist.calls < MaxCalls
    /\ node' = [IdleNode EXCEPT !.pc = "synth", !.pw = SomeWave(pw)]
    /\ ret' = "unit"
    /\ hist' = [hist EXCEPT !.lastWriter = "set_periodic_wave", !.calls = @ + 1,
                            !.stale = 0]
    /\ UNCHANGED <<type_, start, stop, frequency, detune, channel,
                   renderVars, pwVars, afVars>>

\* set_periodic_wave, first statement: self.set_type(OscillatorType::Custom)
SPW_StoreType(pw) ==
    /\ node.pc = "idle"
    /\ hist.calls < MaxCalls
    /\ type_' = as_u32("Custom")
    /\ node' = [IdleNode EXCEPT !.pc = "synth", !.pw = SomeWave(pw)]
    /\ ret' = "unit"
    /\ hist' = [hist EXCEPT !.lastWritten = "Custom",
                            !.lastWriter = "set_periodic_wave",
                            !.calls = @ + 1,
                            !.stale = 0]
    /\ UNCHANGED <<start, stop, frequency, detune, channel,
                   renderVars, pwVars, afVars>>

\* set_periodic_wave, from computed_freq() to norm_factor: the wavetable
\* loop may never exit, norm_factor may panic, otherwise the message is built
SPW_Synth ==
    /\ node.pc = "synth"
    /\ LET pw == node.pw.val
           cf == computed_freq_of(frequency, detune)
       IN  IF LoopDiverges(pw, cf)
           THEN node' = [node EXCEPT !.pc = "diverged"]
           ELSE LET wavetable == generate_wavetable(pw, cf)
                    nf        == norm_factor(wavetable)
                IN  IF ~nf.ok
                    THEN node' = [node EXCEPT !.pc = "panicked", !.panic = nf.panic]
                    ELSE node' = [node EXCEPT
                                    !.pc = "send",
                                    !.msg = PeriodicWaveMsg(cf, wavetable, nf.val,
                                                            pw.disable_normalization)]
    /\ UNCHANGED <<type_, start, stop, frequency, detune, channel,
                   ret, hist, renderVars, pwVars, afVars>>

\* self.sender.send(msg) on a connected channel: the sender waits, with
\* its message, for a receive operation
SPW_Send ==
    /\ node.pc = "send"
    /\ ~channel.disconnected
    /\ channel' = [channel EXCEPT !.waiting = node.msg]
    /\ node' = [node EXCEPT !.pc = "blocked"]
    /\ hist' = [hist EXCEPT !.sent = @ + 1, !.lastSent = node.msg]
    /\ UNCHANGED <<type_, start, stop, frequency, detune, ret,
                   renderVars, pwVars, afVars>>

SPW_SendFailed_ignored ==
    /\ node.pc \in {"send", "blocked"}
    /\ channel.disconnected
    /\ channel' = [channel EXCEPT !.waiting = NoMsg]
    /\ node' = IdleNode
    /\ hist' = [hist EXCEPT !.returned = @ + 1]
    /\ UNCHANGED <<type_, start, stop, frequency, detune, ret,
                   renderVars, pwVars, afVars>>

\* send returns Err when the receiver is gone, before or while the sender
\* waits, and .expect(..) panics
SPW_SendFailed ==
    /\ node.pc \in {"send", "blocked"}
    /\ channel.disconnected
    /\ channel' = [channel EXCEPT !.waiting = NoMsg]
    /\ node' = [node EXCEPT
                  !.pc = "panicked",
                  !.panic = "Sending periodic wave to the node renderer failed"]
    /\ UNCHANGED <<type_, start, stop, frequency, detune, ret, hist,
                   renderVars, pwVars, afVars>>

\* send returned Ok: set_periodic_wave returns
SPW_Return ==
    /\ node.pc = "sent"
    /\ node' = IdleNode
    /\ ret' = "unit"
    /\ hist' = [hist EXCEPT !.returned = @ + 1]
    /\ UNCHANGED <<type_, start, stop, frequency, detune, channel,
                   renderVars, pwVars, afVars>>

\* ------------------------------------------------------- render thread
ctlVars == <<type_, start, stop, frequency, detune, ret>>

\* the host calls process(.., params, timestamp, ..); is_active loads start
P_Begin ==
    /\ proc.pc = "idle"
    /\ quantum < MaxQuanta
    /\ proc' = [IdleProc EXCEPT
                  !.pc = "stop",
                  !.timestamp = quantum,
                  !.start = start,
                  !.freq = computed_freq_of(frequency, detune),
                  !.blockedAtBegin = (node.pc = "blocked"),
                  !.retAtBegin = hist.returned]
    /\ UNCHANGED <<ctlVars, channel, node, renderer, quantum, output, hist, pwVars, afVars>>

P_LoadStop_drains ==
    /\ proc.pc = "stop"
    /\ IF is_active(proc.timestamp, proc.start, stop)
       THEN /\ proc' = [proc EXCEPT !.pc = "type", !.gate = "active"]
            /\ UNCHANGED <<quantum, output, hist, renderer, channel, node>>
       ELSE /\ proc' = Returned("inactive")
            /\ output' = Silence
            /\ quantum' = quantum + 1
            /\ IF channel.waiting # NoMsg
               THEN /\ renderer' = Renderer_set_periodic_wave(renderer, channel.waiting)
                    /\ channel' = [channel EXCEPT !.waiting = NoMsg]
                    /\ node' = [node EXCEPT !.pc = "sent"]
                    /\ hist' = [hist EXCEPT !.startWritten = FALSE,
                                            !.stopWritten = FALSE,
                                            !.recvd = @ + 1, !.stale = 0]
               ELSE /\ hist' = [hist EXCEPT !.startWritten = FALSE,
                                            !.stopWritten = FALSE]
                    /\ UNCHANGED <<renderer, channel, node>>
    /\ UNCHANGED <<ctlVars, pwVars, afVars>>

\* is_active loads stop; an inactive node writes silence and returns
P_LoadStop ==
    /\ proc.pc = "stop"
    /\ IF is_active(proc.timestamp, proc.start, stop)
       THEN /\ proc' = [proc EXCEPT !.pc = "type", !.gate = "active"]
            /\ UNCHANGED <<quantum, output>>
            /\ UNCHANGED hist
       ELSE /\ proc' = Returned("inactive")
            /\ output' = Silence
            /\ quantum' = quantum + 1
            /\ hist' = [hist EXCEPT !.startWritten = FALSE, !.stopWritten = FALSE]
    /\ UNCHANGED <<ctlVars, channel, node, renderer, pwVars, afVars>>

\* let type_ = self.type_.load(Ordering::SeqCst).into()
P_LoadType ==
    /\ proc.pc = "type"
    /\ IF From_u32(type_) = "unreachable"
       THEN proc' = [proc EXCEPT !.pc = "panicked", !.panic = "unreachable"]
       ELSE proc' = [proc EXCEPT !.pc = "recv", !.type_ = From_u32(type_),
                                 !.callsAtLoad = hist.calls]
    /\ UNCHANGED <<ctlVars, channel, node, renderer, quantum, output, hist, pwVars, afVars>>

P_TryRecv_blocking ==
    /\ proc.pc = "recv"
    /\ channel.waiting # NoMsg
    /\ renderer' = Renderer_set_periodic_wave(renderer, channel.waiting)
    /\ channel' = [channel EXCEPT !.waiting = NoMsg]
    /\ node' = [node EXCEPT !.pc = "sent"]
    /\ hist' = [hist EXCEPT !.recvd = @ + 1, !.stale = 0]
    /\ proc' = [proc EXCEPT !.pc = "gen", !.consumed = @ + 1]
    /\ UNCHANGED <<ctlVars, quantum, output, pwVars, afVars>>

\* if let Ok(msg) = self.receiver.try_recv(): a waiting sender hands over its
\* message and is released, the renderer installs it; otherwise nothing
P_TryRecv ==
    /\ proc.pc = "recv"
    /\ IF channel.waiting # NoMsg
       THEN /\ renderer' = Renderer_set_periodic_wave(renderer, channel.waiting)
            /\ channel' = [channel EXCEPT !.waiting = NoMsg]
            /\ node' = [node EXCEPT !.pc = "sent"]
            /\ hist' = [hist EXCEPT !.recvd = @ + 1, !.stale = 0]
            /\ proc' = [proc EXCEPT !.pc = "gen", !.consumed = @ + 1]
       ELSE /\ proc' = [proc EXCEPT !.pc = "gen"]
            /\ UNCHANGED <<renderer, channel, node, hist>>
    /\ UNCHANGED <<ctlVars, quantum, output, pwVars, afVars>>

\* self.generate_output(type_, buffer, &computed_freqs): the quantum is
\* generated, or the custom generator panics on an empty wavetable
P_Generate ==
    /\ proc.pc = "gen"
    /\ \E g \in {generate_output(renderer, proc.type_, proc.freq)} :
           /\ renderer' = g.renderer
           /\ IF g.ok
              THEN /\ proc' = Returned("active")
                   /\ output' = Generated(g)
                   /\ quantum' = quantum + 1
              ELSE /\ proc' = [proc EXCEPT !.pc = "panicked", !.panic = g.panic]
                   /\ UNCHANGED <<quantum, output>>
           /\ hist' = [hist EXCEPT
                         !.startWritten = FALSE, !.stopWritten = FALSE,
                         !.stale = IF /\ g.ok /\ proc.type_ = "Custom"
                                      /\ node.pc \in {"synth", "send", "blocked"}
                                      /\ proc.callsAtLoad = hist.calls
                                   THEN @ + 1 ELSE @]
    /\ UNCHANGED <<ctlVars, channel, node, pwVars, afVars>>

\* the renderer is dropped between two process calls, or after a panic of
\* the render thread: the receiver goes with it
DropRenderer ==
    /\ proc.pc \in {"idle", "panicked"}
    /\ ~channel.disconnected
    /\ channel' = [channel EXCEPT !.disconnected = TRUE]
    /\ proc' = [proc EXCEPT !.pc = IF @ = "idle" THEN "dropped" ELSE @]
    /\ UNCHANGED <<ctlVars, node, renderer, quantum, output, hist, pwVars, afVars>>

\* ------------------------------------------------------ specifications
\* Spec: the control thread and the render thread around the channel, with
\* one start time and one stop time
StartTimes == {0}

StopTimes == {1}

MainTypes == {"Sine", "Custom"}

Next ==
    \/ \E t \in StartTimes : StartAt(t)
    \/ \E t \in StopTimes : StopAt(t)
    \/ \E t \in MainTypes : SetType(t)
    \/ \E f \in Freqs : SetFrequency(f)
    \/ \E pw \in Waves : SPW_StoreType(pw)
    \/ SPW_Synth
    \/ SPW_Send
    \/ SPW_SendFailed
    \/ SPW_Return
    \/ P_Begin
    \/ P_LoadStop
    \/ P_LoadType
    \/ P_TryRecv
    \/ P_Generate
    \/ DropRenderer

Init ==
    /\ \E o \in OptionsSet : OscillatorNode_new(o)
    /\ pwOpts = NoneOpt
    /\ pwRes = [called |-> FALSE]
    /\ AF_New(PosZero, "little")

Spec == Init /\ [][Next]_vars

\* SpecSched: every start and stop time against the render clock, the
\* renderer never dropped
SchedOptions ==
    [type_ : MainTypes, frequency : {DefaultFreq}, detune : {0},
     periodic_wave : {NoWave}]

SchedWaves == {PeriodicWave_new(SomeOpt(<<0, 1, 1>>, <<0, 0, 0>>, TRUE)).val}

InitSched ==
    /\ \E o \in SchedOptions : OscillatorNode_new(o)
    /\ pwOpts = NoneOpt
    /\ pwRes = [called |-> FALSE]
    /\ AF_New(PosZero, "little")

NextSched ==
    \/ \E t \in Times : StartAt(t)
    \/ \E t \in Times : StopAt(t)
    \/ \E t \in MainTypes : SetType(t)
    \/ \E pw \in SchedWaves : SPW_StoreType(pw)
    \/ SPW_Synth
    \/ SPW_Send
    \/ SPW_Return
    \/ P_Begin
    \/ P_LoadStop
    \/ P_LoadType
    \/ P_TryRecv
    \/ P_Generate

SpecSched == InitSched /\ [][NextSched]_vars

\* SpecPW: PeriodicWave::new on every pair of arrays of at most MaxLen
\* coefficients
SeqsUpTo(n) == UNION {[1 .. k -> Coefs] : k \in 0 .. n}

PWOptionsSet ==
    {NoneOpt} \cup {SomeOpt(re, im, dn) :
                      re \in SeqsUpTo(MaxLen), im \in SeqsUpTo(MaxLen), dn \in BOOLEAN}

InitPW ==
    /\ OscillatorNode_new([type_ |-> "Sine", frequency |-> DefaultFreq, detune |-> 0,
                           periodic_wave |-> NoWave])
    /\ pwOpts \in PWOptionsSet
    /\ pwRes = [called |-> FALSE]
    /\ AF_New(PosZero, "little")

\* let periodic_wave = PeriodicWave::new(&context, options)
PW_New ==
    /\ ~pwRes.called
    /\ pwRes' = [called |-> TRUE, res |-> PeriodicWave_new(pwOpts)]
    /\ UNCHANGED <<type_, start, stop, frequency, detune, channel, node, ret,
                   renderVars, hist, pwOpts, afVars>>

NextPW == PW_New

SpecPW == InitPW /\ [][NextPW]_vars

\* SpecType: the five waveform tags through set_type, type_ and the
\* constructor
TypeOptions ==
    [type_ : TypeTags, frequency : {DefaultFreq}, detune : {0},
     periodic_wave : {NoWave} \cup {SomeWave(w) : w \in Waves}]

InitType ==
    /\ \E o \in TypeOptions : OscillatorNode_new(o)
    /\ pwOpts = NoneOpt
    /\ pwRes = [called |-> FALSE]
    /\ AF_New(PosZero, "little")

NextType ==
    \/ \E t \in StartTimes : StartAt(t)
    \/ \E t \in TypeTags : SetType(t)
    \/ Type_
    \/ \E pw \in SchedWaves : SPW_StoreType(pw)
    \/ SPW_Synth
    \/ SPW_Send
    \/ SPW_Return
    \/ P_Begin
    \/ P_LoadStop
    \/ P_LoadType
    \/ P_TryRecv
    \/ P_Generate

SpecType == InitType /\ [][NextType]_vars

\* SpecGen: the generators over a started node, with the frequency moving
\* inside the parameter's range [-nyquist, nyquist]; the waves set are a
\* two-harmonic wave with normalization enabled and the default wave of
\* PeriodicWave::new
GenFreqs == {-440, 880}

GenTypes == {"Sine", "Sawtooth", "Custom"}

GenOptions ==
    [type_ : {"Sine", "Custom"}, frequency : GenFreqs, detune : {0},
     periodic_wave : {NoWave}]

GenWaves ==
    { PeriodicWave_new(SomeOpt(<<0, 1, 1>>, <<0, 0, 0>>, FALSE)).val,
      PeriodicWave_new(NoneOpt).val }

InitGen ==
    /\ \E o \in GenOptions : OscillatorNode_new(o)
    /\ pwOpts = NoneOpt
    /\ pwRes = [called |-> FALSE]
    /\ AF_New(PosZero, "little")

NextGen ==
    \/ \E t \in StartTimes : StartAt(t)
    \/ \E t \in GenTypes : SetType(t)
    \/ \E f \in GenFreqs : SetFrequency(f)
    \/ \E pw \in GenWaves : SPW_StoreType(pw)
    \/ SPW_Synth
    \/ SPW_Send
    \/ SPW_Return
    \/ P_Begin
    \/ P_LoadStop
    \/ P_LoadType
    \/ P_TryRecv
    \/ P_Generate

SpecGen == InitGen /\ [][NextGen]_vars


\* SpecAtomic: one AtomicF64 on its own, every value of F64Values through
\* new, store and load on a target of either byte order
\* a.store(v)
AF_Store(v) ==
    /\ atomic' = AtomicF64_store(atomic, v, target_endian)
    /\ atomicCalls' = [atomicCalls EXCEPT !.writer = "store", !.written = v,
                                          !.loaded = NoLoad]
    /\ UNCHANGED <<type_, start, stop, frequency, detune, channel, node, ret,
                   renderVars, hist, pwVars, target_endian>>

\* a.load()
AF_Load ==
    /\ LET v == AtomicF64_load(atomic, target_endian)
       IN atomicCalls' =
            [atomicCalls EXCEPT !.loaded = SomeLoad(v),
                                !.first = IF atomicCalls.writer = "new"
                                          THEN SomeLoad(v) ELSE @]
    /\ UNCHANGED <<type_, start, stop, frequency, detune, channel, node, ret,
                   renderVars, hist, pwVars, target_endian, atomic>>

InitAtomic ==
    /\ OscillatorNode_new([type_ |-> "Sine", frequency |-> DefaultFreq, detune |-> 0,
                           periodic_wave |-> NoWave])
    /\ pwOpts = NoneOpt
    /\ pwRes = [called |-> FALSE]
    /\ \E v \in F64Values, e \in Endians : AF_New(v, e)

NextAtomic ==
    \/ \E v \in F64Values : AF_Store(v)
    \/ AF_Load

SpecAtomic == InitAtomic /\ [][NextAtomic]_vars


\* --------------------------------------------------------------- claims
\* process returns in this step
Completes == InCall /\ proc'.pc = "idle"

\* C1: is_active(t) is true exactly when start <= t < stop for the stored
\* start and stop: when neither was written while the call ran, the gate of
\* process opens exactly for timestamps in [start, stop)
C1_IsActiveWindow ==
    [][ (proc.pc = "stop" /\ proc'.pc # "stop"
            /\ ~hist.startWritten /\ ~hist.stopWritten)
        => /\ (proc.timestamp < start => proc'.gate = "inactive")
           /\ (proc.timestamp >= start /\ proc.timestamp < stop
                  => proc'.gate = "active")
           /\ (proc.timestamp >= stop => proc'.gate = "inactive") ]_vars

\* the gate opened at a timestamp inside a window whose two ends were stored
C1_Witness ==
    /\ proc.pc = "type" /\ proc.gate = "active"
    /\ ~hist.startWritten /\ ~hist.stopWritten
    /\ start < proc.timestamp /\ proc.timestamp < stop /\ stop # F64_MAX

\* C2: while start was never called, no process call passes the gate and
\* every process call leaves a quantum of exactly 128 zeros
C2_SilentUntilStarted ==
    ~hist.started
    => /\ proc.pc \notin {"type", "recv", "gen"}
       /\ output \in {NoOutput, Silence}
       /\ (quantum > 0 => output = Silence /\ output.len = 128
                          /\ output.samples = "zeros")

\* every quantum was rendered without start, the type changed to Custom
\* meanwhile and a periodic wave waiting in the channel
C2_Witness ==
    /\ ~hist.started /\ quantum = MaxQuanta /\ output = Silence
    /\ type_ = as_u32("Custom") /\ node.pc = "blocked"

\* C3: once stop holds t and is not written again, a process call with
\* timestamp >= t returns an all-zero quantum
C3_SilentAfterStop ==
    [][ (Completes /\ ~hist.stopWritten /\ proc.timestamp >= stop)
        => output' = Silence ]_vars

\* a started node was silenced by stop, a periodic wave waiting meanwhile
C3_Witness ==
    /\ proc.pc = "idle" /\ proc.gate = "inactive" /\ output = Silence
    /\ hist.started /\ start <= proc.timestamp /\ proc.timestamp >= stop
    /\ node.pc = "blocked"

\* C4: a sender that waits in the capacity-0 send when a process call
\* begins has been released when that call returns, whatever the
\* scheduler state
C4_ProcessReleasesSender ==
    [][ (Completes /\ proc.blockedAtBegin) => node'.pc # "blocked" ]_vars

\* C5: for every process call, the type stores of set_periodic_wave seen
\* by its type load and the wavetables installed when it generates are
\* those of the same calls
C5_UpdateAtomic ==
    proc.pc = "gen" => proc.callsAtLoad = hist.recvd

\* C5, as amended: the type atomic holds Custom from the first statement of
\* set_periodic_wave until the call returns, so a wavetable is installed
\* only after its call stored the type; and a process call that begins
\* when every set_periodic_wave call so far has returned generates with the
\* type stores and the wavetables of all of them in effect
C5_StoreThenInstall ==
    /\ (node.pc \in {"synth", "send", "blocked", "sent"}
           => type_ = as_u32("Custom"))
    /\ hist.recvd <= hist.calls
    /\ (proc.pc = "gen" /\ proc.retAtBegin = hist.calls
           => proc.callsAtLoad = hist.calls /\ hist.recvd = hist.calls)

\* a custom quantum is about to be generated by a process call that began
\* after set_periodic_wave returned
C5_Witness ==
    /\ proc.pc = "gen" /\ proc.type_ = "Custom"
    /\ hist.calls >= 1 /\ proc.retAtBegin = hist.calls

\* the renderer's periodic state holds the four fields of message m
Installed(r, m) ==
    /\ r.periodic.wavetable.buffer = m.wavetable
    /\ r.periodic.wavetable.ref_freq = m.computed_freq
    /\ r.periodic.norm_factor = SomeF32(m.norm_factor)
    /\ r.periodic.disable_normalization = m.disable_normalization

\* C6: the messages are received one by one in the order they are sent: at
\* most one is pending, it stays the one the sender offered, every returned
\* call had its message received once, and the message received last is
\* installed in the renderer before the quantum is generated
C6_UpdatesInstalledInOrder ==
    /\ hist.returned <= hist.recvd
    /\ hist.recvd <= hist.sent
    /\ hist.sent <= hist.recvd + 1
    /\ (node.pc = "blocked"
           => hist.sent = hist.recvd + 1 /\ channel.waiting = hist.lastSent
              /\ hist.lastSent = node.msg)
    /\ (node.pc = "sent" => hist.recvd = hist.returned + 1 /\ hist.recvd = hist.sent)
    /\ (node.pc = "idle" => hist.recvd = hist.returned /\ hist.recvd = hist.sent)
    /\ (hist.recvd = hist.sent /\ hist.sent > 0 => Installed(renderer, hist.lastSent))
    /\ (proc.pc = "gen" => proc.consumed <= 1)

\* the second of two updates was consumed by this process call and is
\* installed, replacing a different first one, before the quantum is generated
C6_Witness ==
    /\ proc.pc = "gen" /\ proc.consumed = 1
    /\ hist.recvd = 2 /\ hist.returned = 1
    /\ Installed(renderer, hist.lastSent)
    /\ hist.lastSent.wavetable.real = <<0, 1, 1>>

\* C7: the type atomic holds an ordinal in 0 .. 4 that decodes to the tag
\* written last, type_() returns that tag, and process decodes a tag
C7_TypeRegister ==
    /\ type_ \in 0 .. 4
    /\ From_u32(type_) = hist.lastWritten
    /\ (ret # "unit" => ret = hist.lastWritten)
    /\ proc.panic # "unreachable"
    /\ (proc.pc \in {"recv", "gen"} => proc.type_ \in TypeTags)

\* type_() returned Custom as written by set_periodic_wave
C7_Witness ==
    /\ ret = "Custom" /\ hist.lastWriter = "set_periodic_wave"
    /\ hist.given = NoWave

\* C8: PeriodicWave::new with options fails when an array is shorter than
\* 2 or the lengths differ, and otherwise returns the given fields; every
\* value built from options has arrays of one length, at least 2
C8_PeriodicWaveValidated ==
    (pwRes.called /\ pwOpts.some)
    => LET bad == \/ Len(pwOpts.real) < 2
                  \/ Len(pwOpts.imag) < 2
                  \/ Len(pwOpts.real) # Len(pwOpts.imag)
       IN  /\ (bad => ~pwRes.res.ok)
           /\ (~bad => /\ pwRes.res.ok
                       /\ pwRes.res.val.real = pwOpts.real
                       /\ pwRes.res.val.imag = pwOpts.imag
                       /\ pwRes.res.val.disable_normalization
                             = pwOpts.disable_normalization)
           /\ (pwRes.res.ok => /\ Len(pwRes.res.val.real) = Len(pwRes.res.val.imag)
                               /\ Len(pwRes.res.val.real) >= 2)

\* arrays of lengths 3 and 2, both long enough, were refused
C8_Witness ==
    /\ pwRes.called /\ pwOpts.some /\ ~pwRes.res.ok
    /\ Len(pwOpts.real) = 3 /\ Len(pwOpts.imag) = 2

\* C9: a node constructed with a periodic wave has type Custom, until the
\* type is written again: type_() returns Custom, process dispatches to
\* the custom generator, and the renderer starts from the wavetable of that
\* wave
C9_PeriodicWaveForcesCustom ==
    (hist.given.some /\ hist.lastWriter = "new" /\ node.pc # "panicked")
    => /\ (ret # "unit" => ret = "Custom")
       /\ (proc.pc \in {"recv", "gen"} => proc.type_ = "Custom")
       /\ renderer.periodic.wavetable.buffer
             = generate_wavetable(hist.given.val, DefaultFreq)

\* C10: with the receiver gone, a set_periodic_wave call in progress never
\* returns normally, and at the send it is not blocked: the failed send can
\* be taken, and it panics
C10_SendFailsWhenDropped ==
    /\ [][ (channel.disconnected /\ node.pc \in {"synth", "send", "blocked"})
           => node'.pc \notin {"sent", "idle"} ]_vars
    /\ [][ (channel.disconnected /\ node.pc \in {"send", "blocked"})
           => node'.pc \in {node.pc, "panicked"} ]_vars
    /\ [](channel.disconnected /\ node.pc \in {"send", "blocked"}
             => ENABLED SPW_SendFailed)

\* the send of a built message failed on the dropped receiver
C10_Witness ==
    /\ node.pc = "panicked" /\ node.msg # NoMsg /\ channel.disconnected
    /\ node.panic = "Sending periodic wave to the node renderer failed"
    /\ proc.pc = "dropped"

\* C11: no process call fails on the render thread: the type ordinal
\* decodes to a tag and the custom generator indexes inside a non-empty
\* wavetable, so process never panics
C11_RenderNeverFails ==
    /\ proc.pc # "panicked"
    /\ proc.panic = "none"
    /\ (proc.pc = "gen" /\ proc.type_ = "Custom"
           => renderer.periodic.wavetable.buffer.len > 0)

\* C12: with normalization enabled, every sample rendered by the custom
\* generator lies in [-1, +1]: the samples of the quantum, copied from the
\* installed wavetable, are within the peak-normalized range
C12_CustomNormalized ==
    [][ (proc.pc = "gen" /\ proc'.pc = "idle" /\ output'.samples = "custom"
            /\ ~renderer'.periodic.disable_normalization)
        => \A i \in output'.read :
              Abs(BufferSample(renderer'.periodic.wavetable.buffer, i)) <= Milli ]_vars

\* C13: after set_periodic_wave stored Custom, at most one process call
\* that loaded that type generates a custom quantum from the previous
\* wavetable before the wavetable of the call is installed
C13_WindowOneQuantum == hist.stale <= 1

\* C14: the poll of the channel is a step process can always take, with or
\* without a sender, so the render thread does not wait at it; it takes
\* the one waiting message or nothing, no other step of process receives,
\* and a process call consumes at most one message
C14_NonBlockingPoll ==
    /\ [](proc.pc = "recv" => ENABLED P_TryRecv)
    /\ [][ proc.pc = "recv" /\ proc'.pc # "recv"
           => /\ proc'.pc = "gen"
              /\ hist'.recvd - hist.recvd = proc'.consumed
              /\ proc'.consumed = IF channel.waiting # NoMsg THEN 1 ELSE 0 ]_vars
    /\ [][ proc.pc # "recv" => hist'.recvd = hist.recvd ]_vars
    /\ [](InCall => proc.consumed <= 1)

\* after an update was consumed by an earlier call, a process call polled
\* the channel while the next set_periodic_wave was still synthesizing,
\* found nothing and went on to generate
C14_Witness ==
    /\ proc.pc = "gen" /\ proc.consumed = 0
    /\ node.pc = "synth" /\ hist.recvd = 1 /\ hist.calls = 2

\* C15: at every sample of a generated quantum the phase cursor was in the
\* range of the waveform rendered: [0, TABLE_LENGTH) for sine, [0, 1) for
\* square, sawtooth and triangle, [0, buffer.len()) for custom
C15_PhaseInRange ==
    output.samples \in {"generated", "custom"} => output.cursor

\* C16: every wavetable synthesized from a validated wave holds at least
\* one sample, in set_periodic_wave and in the renderer's constructor, so
\* norm_factor never panics
C16_WavetableNonEmpty ==
    /\ node.panic # "Maximum value not found"
    /\ (node.pc \in {"send", "blocked", "sent"} => node.msg.wavetable.len > 0)
    /\ (proc.pc # "dropped" => renderer.periodic.wavetable.buffer.len > 0)

\* C17: the wavetable loop of set_periodic_wave exits, for every validated
\* wave and every frequency and detune of the parameters' ranges: no call
\* stays in its synthesis for ever
C17_SynthesisTerminates == node.pc # "diverged"

\* C18: a process call that finds the scheduler inactive changes nothing
\* but the output: from its begin to its return at the gate the renderer's
\* fields are unchanged, a message waiting in the channel stays there with
\* its sender blocked, nothing is received, and the output is silence
C18_InactiveCallFrame ==
    /\ [][ (proc.pc = "stop" \/ proc'.pc = "stop")
           => /\ renderer' = renderer
              /\ hist'.recvd = hist.recvd
              /\ (channel.waiting # NoMsg
                     => /\ channel'.waiting = channel.waiting
                        /\ node.pc = "blocked" /\ node'.pc = "blocked") ]_vars
    /\ [][ (proc.pc = "stop" /\ proc'.pc = "idle")
           => /\ proc'.gate = "inactive"
              /\ output' = Silence
              /\ channel' = channel /\ node' = node ]_vars

\* a node that had generated a sine quantum was stopped; the next process
\* call returned silence and left the renderer's phase and the blocked
\* sender of a periodic wave as they were
C18_Witness ==
    /\ proc.pc = "idle" /\ proc.gate = "inactive" /\ proc.timestamp = 1
    /\ output = Silence /\ quantum = 2
    /\ node.pc = "blocked" /\ channel.waiting = node.msg
    /\ renderer.phase # 0 /\ ~renderer.sine_first

\* C19: when a custom quantum is generated, wavetable.incr_phase is
\* computed_freq / wavetable.ref_freq for the renderer's computed_freq and
\* the ref_freq of the installed wavetable
C19_WavetableIncrement ==
    [][ (proc.pc = "gen" /\ proc'.pc = "idle" /\ output'.samples = "custom")
        => renderer'.periodic.wavetable.incr_phase
                * renderer'.periodic.wavetable.ref_freq
             = renderer'.computed_freq * Milli ]_vars

\* C20: when a sine, square, sawtooth or triangle quantum is generated,
\* incr_phase is in the unit of that waveform: computed_freq / sample_rate
\* * TABLE_LENGTH for sine, computed_freq / sample_rate for the others
C20_IncrementUnit ==
    [][ (proc.pc = "gen" /\ proc'.pc = "idle" /\ output'.samples = "generated")
        => renderer'.incr_phase
             = IF proc.type_ = "Sine"
               THEN renderer'.computed_freq * TABLE_LENGTH
               ELSE renderer'.computed_freq ]_vars

\* C21: AtomicF64 is a faithful register: a load before the first store
\* returns the value passed to new, and a load after a store returns the
\* value of the latest store, with the same sign, exponent and fraction
\* bits, for every value that is not a NaN: the infinities, both zeros and
\* the subnormals included
C21_AtomicF64Register ==
    /\ (atomicCalls.first.some /\ ~is_nan(atomicCalls.initial))
        => /\ atomicCalls.first.val = atomicCalls.initial
           /\ F64Eq(atomicCalls.first.val, atomicCalls.initial)
    /\ (atomicCalls.loaded.some /\ ~is_nan(atomicCalls.written))
        => /\ atomicCalls.loaded.val = atomicCalls.written
           /\ F64Eq(atomicCalls.loaded.val, atomicCalls.written)
    /\ ~is_nan(atomicCalls.written)
        => AtomicF64_load(atomic, target_endian) = atomicCalls.written

\* on a little-endian target a cell made with -infinity was loaded before
\* any store, then the smallest subnormal was stored over it and loaded back
C21_Witness ==
    /\ target_endian = "little"
    /\ atomicCalls.initial = NegInfinity
    /\ atomicCalls.first = SomeLoad(NegInfinity)
    /\ atomicCalls.writer = "store"
    /\ atomicCalls.written = MinSubnormal
    /\ atomicCalls.loaded = SomeLoad(MinSubnormal)
    /\ atomic.inner = <<0, 0, 0, 0, 0, 0, 0, 1>>

====
